---- MODULE Spec2Model ----
(***************************************************************************)
(* Model of the subprocess session manager of claude-code-mcp             *)
(* (src/src/terminal-manager.ts, class TerminalManager) together with the  *)
(* Node.js primitives it is built on: the ChildProcess handle, its data    *)
(* and exit events, setTimeout/clearTimeout and the settle-once Promise.   *)
(*                                                                         *)
(* Text is a sequence of tokens.  The k-th character a child writes is the *)
(* token k (k >= 1), so every character of a stream is distinguishable;    *)
(* the token 0 is a character of the truncation notice.                    *)
(* The clock counts units of 24 hours: the hard-coded 24 hour limit is 1   *)
(* unit, and the env-configurable periods are configured to 1 unit.        *)
(***************************************************************************)
EXTENDS Integers, Sequences, FiniteSets, TLC

VARIABLES
    now,                \* reading of the clock (new this.dateConstructor())
    childSt,            \* per spawned child: state of the ChildProcess handle
    childPid,           \* per spawned child: childProcess.pid (Undefined if none)
    session,            \* per execute call: the TerminalSession object it created
    output,             \* per execute call: the closure variable `output`
    timerSt,            \* per execute call: state of timeoutHandler
    timerAt,            \* per execute call: due time of timeoutHandler
    results,            \* per execute call: what the returned Promise delivered
    sessions,           \* this.sessions, a Map in insertion order
    completedSessions,  \* this.completedSessions, a Map in insertion order
    killTimers,         \* pending SIGKILL timers set by forceTerminate, in order
    signals,            \* per child: the signals delivered to it, in order
    reads,              \* history: per execute call, the texts drained by getNewOutput
    tracked,            \* history: per pid, a session was inserted under it and
                        \* that session's record has not been evicted
    swept,              \* history: cleanupOldSessions has run at this clock reading
    env,                \* process.env: the variables the server reads
    limited,            \* the latest call of limitBufferSize and what it returned
    spawnEnv,           \* the env option of the latest spawn
    reply,              \* what the CallToolRequest handler answered to the latest call
    check,              \* the latest call of isCommandAllowed and what it returned
    handler,            \* per execute call: the tool handler that made it and where
                        \* that handler stands
    answers,            \* per execute call: the replies its tool handler has sent
    proc                \* the server process: up, exited or brought down

\* The state of the TerminalManager and of the children, and the state around it.
managerVars == <<now, childSt, childPid, session, output, timerSt, timerAt, results,
                 sessions, completedSessions, killTimers, signals, reads, tracked, swept>>

toolVars == <<env, limited, spawnEnv, reply, check, handler, answers, proc>>

vars == <<managerVars, toolVars>>

----------------------------------------------------------------------------
(* Bounds of the model *)

MaxChildren == 2
MaxPid == 2
MaxTime == 2
MaxTimeout == 0
MaxBytes == 1
MaxSignals == 1
BufSmall == 40
BufChunk == 78
BufMaxBytes == 158

(* Program constants *)

MAX_COMPLETED_SESSIONS == 1
COMPLETED_SESSION_MAX_AGE_MS == 1
SIGINT_TIMEOUT_MS == 1
MAX_OUTPUT_BUFFER_SIZE == 78
maxActiveSessionAge == 1
NoticeLen == 76
MAX_SAFE_INTEGER == 2147483647

Undefined == 0
NullCode == 0 - 1
ErrorPid == 0 - 1

Children == 1..MaxChildren
Pids == 1..MaxPid

warningMessage == [i \in 1..NoticeLen |-> 0]
NoPidMessage == <<0 - 1>>
NoNewOutputText == <<0 - 2>>
\* "Process completed with exit code", as one character.
CompletionPhrase == <<0 - 3>>

----------------------------------------------------------------------------
(* String helpers of the JavaScript runtime *)

\* String.prototype.substring(start) with start clamped to 0..length.
Substring(s, start) ==
    LET st == IF start < 0 THEN 0 ELSE IF start > Len(s) THEN Len(s) ELSE start
    IN  SubSeq(s, st + 1, Len(s))

\* The characters of s that are not notice characters.
IsData(x) == x # 0
StripNotice(s) == SelectSeq(s, IsData)

\* The text a child writes next when it has written `sofar` and writes n characters.
NextText(sofar, n) == [i \in 1..n |-> Len(sofar) + i]

RECURSIVE TotalLen(_, _)
TotalLen(f, S) ==
    IF S = {} THEN 0
    ELSE LET c == CHOOSE x \in S : TRUE IN Len(f[c]) + TotalLen(f, S \ {c})

----------------------------------------------------------------------------
(* TerminalManager.limitBufferSize *)

limitBufferSize(buffer, maxSize) ==
    IF Len(buffer) <= maxSize
    THEN buffer
    ELSE LET truncatedSize == maxSize - Len(warningMessage)
         IN  warningMessage \o Substring(buffer, Len(buffer) - truncatedSize)

----------------------------------------------------------------------------
(* Map operations (JavaScript Map keeps insertion order; set on an existing *)
(* key replaces the value in place)                                        *)

MapHas(m, pid) == \E i \in 1..Len(m) : m[i].pid = pid

MapIndex(m, pid) == CHOOSE i \in 1..Len(m) : m[i].pid = pid

MapGet(m, pid) == m[MapIndex(m, pid)]

MapSet(m, entry) ==
    IF MapHas(m, entry.pid)
    THEN [m EXCEPT ![MapIndex(m, entry.pid)] = entry]
    ELSE Append(m, entry)

MapDelete(m, pid) ==
    IF MapHas(m, pid)
    THEN LET i == MapIndex(m, pid)
         IN  SubSeq(m, 1, i - 1) \o SubSeq(m, i + 1, Len(m))
    ELSE m

MapKeys(m) == {m[i].pid : i \in 1..Len(m)}

----------------------------------------------------------------------------
(* config.ts: the command allowlist.  A string is a sequence of characters; *)
(* an environment variable is unset or holds a string.                      *)

MaxCommandLen == 3
MaxEnvLen == 3

CommandChars == {"l", "s", "L", " "}
EnvChars == {"l", ",", " "}

StringsUpTo(chars, n) == UNION {[1..k -> chars] : k \in 0..n}

Commands == StringsUpTo(CommandChars, MaxCommandLen)

Unset == [set |-> FALSE, value |-> <<>>]
EnvVar(text) == [set |-> TRUE, value |-> text]

TrueText == <<"t", "r", "u", "e">>
FalseText == <<"f", "a", "l", "s", "e">>
OrchestratorName == <<"claude-orchestrator">>
ClaudeName == <<"claude">>
TestValue == <<"test_value">>

\* The environments the server can be started in.
Environments ==
    [ALLOW_ALL_COMMANDS : {Unset, EnvVar(TrueText), EnvVar(<<"1">>)},
     ALLOWED_COMMANDS : {Unset} \cup {EnvVar(t) : t \in StringsUpTo(EnvChars, MaxEnvLen)},
     MCP_ORCHESTRATOR_MODE : {Unset},
     CLAUDE_CLI_NAME : {Unset},
     CLAUDE_CLI_ORCHESTRATOR_PASSTHROUGH : {Unset},
     MCP_CLAUDE_DEBUG : {Unset},
     TEST_VAR : {Unset}]

\* The environments that matter to the scrubbing of the child's environment.
OrchestratorEnvironments ==
    [ALLOW_ALL_COMMANDS : {Unset},
     ALLOWED_COMMANDS : {Unset},
     MCP_ORCHESTRATOR_MODE : {Unset, EnvVar(TrueText), EnvVar(FalseText)},
     CLAUDE_CLI_NAME : {Unset, EnvVar(ClaudeName), EnvVar(OrchestratorName)},
     CLAUDE_CLI_ORCHESTRATOR_PASSTHROUGH : {Unset, EnvVar(TrueText)},
     MCP_CLAUDE_DEBUG : {Unset, EnvVar(TrueText), EnvVar(FalseText)},
     TEST_VAR : {Unset, EnvVar(TestValue)}]

DefaultEnv ==
    [ALLOW_ALL_COMMANDS |-> Unset, ALLOWED_COMMANDS |-> Unset,
     MCP_ORCHESTRATOR_MODE |-> Unset, CLAUDE_CLI_NAME |-> Unset,
     CLAUDE_CLI_ORCHESTRATOR_PASSTHROUGH |-> Unset, MCP_CLAUDE_DEBUG |-> Unset,
     TEST_VAR |-> Unset]

DEFAULT_ALLOWED_COMMANDS ==
    << <<"l", "s">>,
       <<"d", "i", "r">>,
       <<"p", "w", "d">>,
       <<"e", "c", "h", "o">>,
       <<"d", "a", "t", "e">>,
       <<"t", "i", "m", "e">>,
       <<"c", "a", "t">>,
       <<"h", "e", "a", "d">>,
       <<"t", "a", "i", "l">>,
       <<"l", "e", "s", "s">>,
       <<"m", "o", "r", "e">>,
       <<"g", "r", "e", "p">>,
       <<"f", "i", "n", "d">>,
       <<"g", "i", "t", " ", "s", "t", "a", "t", "u", "s">>,
       <<"g", "i", "t", " ", "l", "o", "g">>,
       <<"g", "i", "t", " ", "d", "i", "f", "f">>,
       <<"g", "i", "t", " ", "s", "h", "o", "w">>,
       <<"g", "i", "t", " ", "l", "s", "-", "f", "i", "l", "e", "s">>,
       <<"g", "i", "t", " ", "b", "r", "a", "n", "c", "h">>,
       <<"n", "o", "d", "e">>,
       <<"n", "p", "m", " ", "l", "i", "s", "t">>,
       <<"n", "p", "m", " ", "r", "u", "n">>,
       <<"n", "p", "m", " ", "t", "e", "s", "t">>,
       <<"n", "p", "m", " ", "c", "i">>,
       <<"p", "s">>,
       <<"t", "o", "p">>,
       <<"h", "t", "o", "p">>,
       <<"f", "r", "e", "e">>,
       <<"d", "f">> >>

\* JavaScript truthiness of process.env.X: undefined and '' are falsy.
Truthy(v) == v.set /\ v.value # <<>>

IsSpace(ch) == ch = " "

\* String.prototype.trim, in its two halves.
RECURSIVE TrimStart(_)
TrimStart(s) ==
    IF s # <<>> /\ IsSpace(Head(s)) THEN TrimStart(Tail(s)) ELSE s

RECURSIVE TrimEnd(_)
TrimEnd(s) ==
    IF s # <<>> /\ IsSpace(s[Len(s)]) THEN TrimEnd(SubSeq(s, 1, Len(s) - 1)) ELSE s

Trim(s) == TrimEnd(TrimStart(s))

\* String.prototype.split(','): the pieces between the commas, empty ones kept.
RECURSIVE Split(_)
Split(s) ==
    IF \E i \in 1..Len(s) : s[i] = ","
    THEN LET i == CHOOSE k \in 1..Len(s) : s[k] = "," /\ \A j \in 1..(k - 1) : s[j] # ","
         IN  <<SubSeq(s, 1, i - 1)>> \o Split(SubSeq(s, i + 1, Len(s)))
    ELSE <<s>>

\* String.prototype.startsWith
StartsWith(s, prefix) ==
    Len(prefix) <= Len(s) /\ SubSeq(s, 1, Len(prefix)) = prefix

\* A plausible slip: the entries of ALLOWED_COMMANDS are not trimmed.
AllowedCommandsRaw(e) ==
    IF Truthy(e.ALLOWED_COMMANDS) THEN Split(e.ALLOWED_COMMANDS.value)
    ELSE DEFAULT_ALLOWED_COMMANDS

\* const allowedCommands = process.env.ALLOWED_COMMANDS ? ... : DEFAULT_ALLOWED_COMMANDS
AllowedCommands(e) ==
    IF Truthy(e.ALLOWED_COMMANDS)
    THEN LET parts == Split(e.ALLOWED_COMMANDS.value)
         IN  [i \in 1..Len(parts) |-> Trim(parts[i])]
    ELSE DEFAULT_ALLOWED_COMMANDS

isCommandAllowed(command) ==
    IF env.ALLOW_ALL_COMMANDS = EnvVar(TrueText)
    THEN TRUE
    ELSE LET allowedCommands == AllowedCommands(env)
         IN  \E i \in 1..Len(allowedCommands) :
                 StartsWith(Trim(command), allowedCommands[i])

\* A reply of the CallToolRequest handler: a tool result, a protocol error, or
\* nothing yet.  `text` holds the fixed parts of the text, `data` the numbers and
\* the session output put into it; `child` names the call a pending reply waits for.
Reply(kind, isError, code, text, data, child) ==
    [kind |-> kind, isError |-> isError, code |-> code, text |-> text,
     data |-> data, child |-> child]

NoReply == Reply("none", FALSE, "", <<>>, <<>>, 0)
NotChecked == [called |-> FALSE, command |-> <<>>, allowed |-> FALSE]

\* Where the tool handler that called executeCommand stands: at the await of
\* the manager's Promise, in the polling interval, or returned.
Handler(tool, wait, at) == [tool |-> tool, wait |-> wait, at |-> at]
NoHandler == Handler("none", FALSE, "none")

\* The server process.
NotLimited == [called |-> FALSE, buffer |-> <<>>, maxSize |-> 0, result |-> <<>>]
NotSpawned(e) == [called |-> FALSE, env |-> e]

Process(state, status) == [state |-> state, status |-> status]
Up == Process("up", 0 - 1)

----------------------------------------------------------------------------
\* The state after construction, in one of the given environments and with one
\* of the given calls of limitBufferSize at hand.
InitWith(envs, calls) ==
    /\ now = 0
    /\ childSt = [c \in Children |-> "unborn"]
    /\ childPid = [c \in Children |-> Undefined]
    /\ session = [c \in Children |-> [lastOutput |-> <<>>, isBlocked |-> FALSE, startTime |-> 0]]
    /\ output = [c \in Children |-> <<>>]
    /\ timerSt = [c \in Children |-> "none"]
    /\ timerAt = [c \in Children |-> 0]
    /\ results = [c \in Children |-> <<>>]
    /\ sessions = <<>>
    /\ completedSessions = <<>>
    /\ killTimers = <<>>
    /\ signals = [c \in Children |-> <<>>]
    /\ reads = [c \in Children |-> <<>>]
    /\ tracked = [p \in Pids |-> FALSE]
    /\ swept = FALSE
    /\ env \in envs
    /\ limited \in calls
    /\ spawnEnv = NotSpawned(env)
    /\ reply = NoReply
    /\ check = NotChecked
    /\ handler = [c \in Children |-> NoHandler]
    /\ answers = [c \in Children |-> <<>>]
    /\ proc = Up

\* The state after construction, in one of the given environments.
InitEnv(envs) == InitWith(envs, {NotLimited})

Init == InitEnv({DefaultEnv})

----------------------------------------------------------------------------
(* Node.js primitives *)

\* ChildProcess.kill(sig): the signal reaches the child only while the handle
\* is open; after the exit event the handle is closed and kill does nothing.
\* A plausible slip: the signal is sent to the pid, whatever became of the handle.
KillByPid(sigs, c, sig) ==
    LET target == IF MapHas(sessions, childPid[c]) THEN MapGet(sessions, childPid[c]).child ELSE c
    IN  [sigs EXCEPT ![target] = Append(@, sig)]

Kill(sigs, c, sig) ==
    IF childSt[c] = "running"
    THEN [sigs EXCEPT ![c] = Append(@, sig)]
    ELSE sigs

\* resolve(value) of a Promise: the first call settles it, later calls do nothing.
Resolve(c, value) ==
    IF results[c] = <<>> THEN [results EXCEPT ![c] = <<value>>] ELSE results

\* clearTimeout(timeoutHandler): cancels a timer that has not fired yet.
ClearTimeout(st) == IF st = "armed" THEN "cleared" ELSE st

----------------------------------------------------------------------------
(* TerminalManager.executeCommand: spawn and registration *)

\* The operating system gives a new child a pid that no running child has.
PidFree(pid) == \A d \in Children : childSt[d] = "running" => childPid[d] # pid

\* Pids are interchangeable: a pid that no child had yet is the smallest such pid.
PidUsed(pid) == \E d \in Children : childPid[d] = pid
PidCanonical(pid) == PidUsed(pid) \/ \A q \in Pids : q < pid => PidUsed(q)

\* A plausible slip: the missing pid is passed on instead of -1.
NoPidResultUndefined ==
    [pid |-> Undefined, output |-> NoPidMessage, isBlocked |-> FALSE]

\* The error object returned when spawn gave no pid.
NoPidResult ==
    [pid |-> ErrorPid, output |-> NoPidMessage, isBlocked |-> FALSE]

\* A plausible slip: a new session is marked blocked from the start.
NewSessionBlocked == [lastOutput |-> <<>>, isBlocked |-> TRUE, startTime |-> now]

\* const session: TerminalSession = {...}
NewSession == [lastOutput |-> <<>>, isBlocked |-> FALSE, startTime |-> now]

\* A plausible slip: the name of the CLI is left in the child's environment.
envVarsWithName(processEnv) ==
    IF \/ processEnv.MCP_ORCHESTRATOR_MODE = EnvVar(TrueText)
       \/ processEnv.CLAUDE_CLI_NAME = EnvVar(OrchestratorName)
    THEN [processEnv EXCEPT !.CLAUDE_CLI_ORCHESTRATOR_PASSTHROUGH = EnvVar(FalseText),
                            !.MCP_CLAUDE_DEBUG = EnvVar(FalseText),
                            !.MCP_ORCHESTRATOR_MODE = Unset]
    ELSE processEnv

\* const envVars = { ...process.env }, scrubbed in orchestrator mode.
envVars(processEnv) ==
    IF \/ processEnv.MCP_ORCHESTRATOR_MODE = EnvVar(TrueText)
       \/ processEnv.CLAUDE_CLI_NAME = EnvVar(OrchestratorName)
    THEN [processEnv EXCEPT !.CLAUDE_CLI_ORCHESTRATOR_PASSTHROUGH = EnvVar(FalseText),
                            !.MCP_CLAUDE_DEBUG = EnvVar(FalseText),
                            !.MCP_ORCHESTRATOR_MODE = Unset,
                            !.CLAUDE_CLI_NAME = Unset]
    ELSE processEnv

ExecuteCommandCall(c, pid, timeoutMs) ==
    /\ now <= MaxTime
    /\ childSt[c] = "unborn"
    /\ \A d \in Children : d < c => childSt[d] # "unborn"
    /\ IF pid = Undefined
       THEN /\ childSt' = [childSt EXCEPT ![c] = "nopid"]
            /\ results' = Resolve(c, NoPidResult)
            /\ UNCHANGED <<childPid, session, timerSt, timerAt, sessions, tracked>>
       ELSE /\ PidFree(pid)
            /\ PidCanonical(pid)
            /\ childSt' = [childSt EXCEPT ![c] = "running"]
            /\ childPid' = [childPid EXCEPT ![c] = pid]
            /\ session' = [session EXCEPT ![c] = NewSession]
            /\ sessions' = MapSet(sessions, [pid |-> pid, child |-> c])
            /\ timerSt' = [timerSt EXCEPT ![c] = "armed"]
            /\ timerAt' = [timerAt EXCEPT ![c] = now + timeoutMs]
            /\ tracked' = [tracked EXCEPT ![pid] = TRUE]
            /\ UNCHANGED results
    /\ spawnEnv' = [called |-> TRUE, env |-> envVars(env)]
    /\ UNCHANGED <<now, output, completedSessions, killTimers, signals, reads, swept>>

\* executeCommand called on the manager directly.
ExecuteCommand(c, pid, timeoutMs) ==
    /\ ExecuteCommandCall(c, pid, timeoutMs)
    /\ UNCHANGED <<env, limited, reply, check, handler, answers, proc>>

----------------------------------------------------------------------------
(* TerminalManager.executeCommand: stdout and stderr 'data' handlers *)

\* A plausible slip: output that arrives once the call has returned is dropped.
DataBufferDropBlocked(c, text) ==
    IF session[c].isBlocked THEN session[c].lastOutput
    ELSE limitBufferSize(session[c].lastOutput \o text, MAX_OUTPUT_BUFFER_SIZE)

DataBuffer(c, text) ==
    limitBufferSize(session[c].lastOutput \o text, MAX_OUTPUT_BUFFER_SIZE)

\* A plausible slip: one buffer is shared by all sessions.
DataHandlerTextShared(c, text) ==
    /\ childSt[c] \in {"running", "exited"}
    /\ output' = [output EXCEPT ![c] = @ \o text]
    /\ session' = [d \in Children |->
                      [session[d] EXCEPT !.lastOutput = DataBuffer(d, text)]]
    /\ UNCHANGED <<now, childSt, childPid, timerSt, timerAt, results, sessions,
                   completedSessions, killTimers, signals, reads, tracked, swept, toolVars>>

\* The 'data' handler called with the given text.
DataHandlerText(c, text) ==
    /\ childSt[c] \in {"running", "exited"}
    /\ output' = [output EXCEPT ![c] = @ \o text]
    /\ session' = [session EXCEPT ![c].lastOutput = DataBuffer(c, text)]
    /\ UNCHANGED <<now, childSt, childPid, timerSt, timerAt, results, sessions,
                   completedSessions, killTimers, signals, reads, tracked, swept, toolVars>>

DataHandler(c, n) == DataHandlerText(c, NextText(output[c], n))

\* The streams of all children together stay within maxBytes characters.
StdoutData(c, n, maxBytes) ==
    /\ TotalLen(output, Children) + n <= maxBytes
    /\ DataHandler(c, n)

StderrData(c, n, maxBytes) ==
    /\ TotalLen(output, Children) + n <= maxBytes
    /\ DataHandler(c, n)

\* The child writes the words that open a completion block.
StdoutPhrase(c, maxBytes) ==
    /\ TotalLen(output, Children) + Len(CompletionPhrase) <= maxBytes
    /\ DataHandlerText(c, CompletionPhrase)

----------------------------------------------------------------------------
(* TerminalManager.executeCommand: timeoutHandler *)

\* A plausible slip: the initial-wait timeout ends the child.
TimeoutSignalsKill(c) == Kill(signals, c, "SIGTERM")

\* timeoutHandler sends no signal.
TimeoutSignals(c) == signals

TimeoutHandlerCall(c) ==
    /\ timerSt[c] = "armed"
    /\ now >= timerAt[c]
    /\ timerSt' = [timerSt EXCEPT ![c] = "fired"]
    /\ session' = [session EXCEPT ![c].isBlocked = TRUE]
    /\ results' = Resolve(c, [pid |-> childPid[c], output |-> output[c],
                              isBlocked |-> TRUE])
    /\ signals' = TimeoutSignals(c)
    /\ UNCHANGED <<now, childSt, childPid, output, timerAt, sessions,
                   completedSessions, killTimers, reads, tracked, swept>>

\* The timer fires for a call made on the manager directly.
TimeoutHandler(c) == TimeoutHandlerCall(c) /\ UNCHANGED toolVars

----------------------------------------------------------------------------
(* TerminalManager.executeCommand: 'exit' handler *)

\* A plausible slip: the scan compares with <=, so of several records with the
\* earliest end time it finds the one stored last.
RECURSIVE OldestScanTies(_, _, _, _)
OldestScanTies(m, i, oldestKey, oldestTime) ==
    IF i > Len(m) THEN oldestKey
    ELSE IF m[i].endTime <= oldestTime
         THEN OldestScanTies(m, i + 1, m[i].pid, m[i].endTime)
         ELSE OldestScanTies(m, i + 1, oldestKey, oldestTime)

\* The loop that finds the oldest completed session by end time.
RECURSIVE OldestScan(_, _, _, _)
OldestScan(m, i, oldestKey, oldestTime) ==
    IF i > Len(m) THEN oldestKey
    ELSE IF m[i].endTime < oldestTime
         THEN OldestScan(m, i + 1, m[i].pid, m[i].endTime)
         ELSE OldestScan(m, i + 1, oldestKey, oldestTime)

OldestKey(m) == OldestScan(m, 1, 0 - 1, MAX_SAFE_INTEGER)

\* A plausible slip: the scan compares the wrong way round and finds no key.
CapCompletedNoKey(m) ==
    IF Len(m) > MAX_COMPLETED_SESSIONS
    THEN LET found == {i \in 1..Len(m) : m[i].endTime > MAX_SAFE_INTEGER}
         IN  IF found # {} THEN MapDelete(m, m[CHOOSE i \in found : TRUE].pid) ELSE m
    ELSE m

\* A plausible slip: the cap removes the record that was stored last.
CapCompletedNewest(m) ==
    IF Len(m) > MAX_COMPLETED_SESSIONS THEN MapDelete(m, m[Len(m)].pid) ELSE m

\* Keep only the configured maximum number of completed sessions.
CapCompleted(m) ==
    IF Len(m) > MAX_COMPLETED_SESSIONS
    THEN LET oldestKey == OldestKey(m)
         IN  IF oldestKey # 0 - 1 THEN MapDelete(m, oldestKey) ELSE m
    ELSE m

\* A plausible slip: the exit handler leaves the timer armed.
ExitTimerStateKept(c) == timerSt[c]

ExitTimerState(c) == ClearTimeout(timerSt[c])

ExitFinalOutput(c) ==
    limitBufferSize(output[c] \o session[c].lastOutput, MAX_OUTPUT_BUFFER_SIZE)

\* A plausible slip: a child ended by a signal (null exit code) is not recorded.
ExitCompletedSkipNull(c, code) ==
    IF code = NullCode THEN completedSessions
    ELSE MapSet(completedSessions,
           [pid |-> childPid[c], output |-> ExitFinalOutput(c), exitCode |-> code,
            startTime |-> session[c].startTime, endTime |-> now, child |-> c])

ExitCompleted(c, code) ==
    MapSet(completedSessions,
           [pid |-> childPid[c], output |-> ExitFinalOutput(c), exitCode |-> code,
            startTime |-> session[c].startTime, endTime |-> now, child |-> c])

\* A plausible slip: the active session is not removed.
ExitSessionsKept(c) == sessions

\* A plausible slip: the exit of one child clears the whole active map.
ExitSessionsCleared(c) == <<>>

ExitSessions(c) == MapDelete(sessions, childPid[c])

ExitHandlerCall(c, code) ==
    /\ childSt[c] = "running"
    /\ childSt' = [childSt EXCEPT ![c] = "exited"]
    /\ timerSt' = [timerSt EXCEPT ![c] = ExitTimerState(c)]
    /\ LET stored == ExitCompleted(c, code)
           capped == CapCompleted(stored)
       IN  /\ completedSessions' = capped
           /\ tracked' = [p \in Pids |->
                            IF p \in MapKeys(stored) \ MapKeys(capped)
                            THEN MapHas(ExitSessions(c), p) ELSE tracked[p]]
    /\ sessions' = ExitSessions(c)
    /\ results' = Resolve(c, [pid |-> childPid[c], output |-> output[c],
                              isBlocked |-> FALSE])
    /\ UNCHANGED <<now, childPid, session, output, timerAt, killTimers, signals, reads,
                   swept>>

\* SIGKILL cannot be ignored: a child that received it can end at any time.
Killed(c) == \E i \in 1..Len(signals[c]) : signals[c][i] = "SIGKILL"

\* The exit of the child of a call made on the manager directly.
ExitHandler(c, code) == ExitHandlerCall(c, code) /\ UNCHANGED toolVars

\* The child ends by itself (or after a signal it chose to obey).
ChildExit(c, code) == ExitHandler(c, code)

\* SIGKILL cannot be ignored: a child that received it ends, with a null exit code.
KilledExit(c) ==
    /\ Killed(c)
    /\ ExitHandler(c, NullCode)

----------------------------------------------------------------------------
(* TerminalManager.getNewOutput *)

\* A plausible slip: an empty drain returns the empty string itself.
getNewOutputRaw(pid) ==
    IF MapHas(sessions, pid)
    THEN [kind |-> "text", text |-> session[MapGet(sessions, pid).child].lastOutput]
    ELSE [kind |-> "null"]

getNewOutput(pid) ==
    IF MapHas(sessions, pid)
    THEN LET out == session[MapGet(sessions, pid).child].lastOutput
         IN  [kind |-> "text", text |-> IF out # <<>> THEN out ELSE NoNewOutputText]
    ELSE IF MapHas(completedSessions, pid)
         THEN LET done == MapGet(completedSessions, pid)
              IN  [kind |-> "completed", exitCode |-> done.exitCode,
                   runtime |-> done.endTime - done.startTime, text |-> done.output]
         ELSE [kind |-> "null"]

\* A plausible slip: the buffer is not reset after it was returned.
ReadDrainedKept(lastOutput) == lastOutput

\* session.lastOutput = ''
ReadDrained(lastOutput) == <<>>

ReadNewCall(pid) ==
    /\ IF MapHas(sessions, pid)
       THEN LET c == MapGet(sessions, pid).child
            IN  /\ session' = [session EXCEPT ![c].lastOutput = ReadDrained(@)]
                /\ reads' = [reads EXCEPT ![c] = @ \o session[c].lastOutput]
       ELSE UNCHANGED <<session, reads>>
    /\ UNCHANGED <<now, childSt, childPid, output, timerSt, timerAt, results, sessions,
                   completedSessions, killTimers, signals, tracked, swept>>

\* getNewOutput called on the manager directly.
ReadNew(pid) == ReadNewCall(pid) /\ UNCHANGED toolVars

----------------------------------------------------------------------------
(* TerminalManager.forceTerminate and its SIGKILL timer *)

\* The effect of forceTerminate(pid) on the signals and on the pending timers.
TerminateSignals(sigs, pid) ==
    IF MapHas(sessions, pid) THEN Kill(sigs, MapGet(sessions, pid).child, "SIGINT") ELSE sigs

\* A plausible slip: the SIGKILL timer is set without the grace period.
TerminateTimersNoGrace(timers, pid) ==
    IF MapHas(sessions, pid)
    THEN Append(timers, [pid |-> pid, child |-> MapGet(sessions, pid).child, at |-> now])
    ELSE timers

TerminateTimers(timers, pid) ==
    IF MapHas(sessions, pid)
    THEN Append(timers, [pid |-> pid, child |-> MapGet(sessions, pid).child,
                         at |-> now + SIGINT_TIMEOUT_MS])
    ELSE timers

\* A plausible slip: forceTerminate reports success without looking up the pid.
forceTerminateResultAlways(pid) == TRUE

forceTerminateResult(pid) == MapHas(sessions, pid)

\* Number of cooperative signals sent so far, and the room left under the bound.
RECURSIVE CountInt(_)
CountInt(S) ==
    IF S = {} THEN 0
    ELSE LET c == CHOOSE x \in S : TRUE
         IN  Cardinality({i \in 1..Len(signals[c]) : signals[c][i] = "SIGINT"})
             + CountInt(S \ {c})

SignalRoom(n) == CountInt(Children) + n <= MaxSignals

ForceTerminateCall(pid) ==
    /\ now <= MaxTime
    /\ SignalRoom(1)
    /\ signals' = TerminateSignals(signals, pid)
    /\ killTimers' = TerminateTimers(killTimers, pid)
    /\ UNCHANGED <<now, childSt, childPid, session, output, timerSt, timerAt, results,
                   sessions, completedSessions, reads, tracked, swept>>

\* forceTerminate called on the manager directly.
ForceTerminate(pid) == ForceTerminateCall(pid) /\ UNCHANGED toolVars

\* A plausible slip: the condition of the timer callback is inverted.
KillTimerSendsInverted(t) == ~MapHas(sessions, t.pid)

\* The condition under which the timer callback sends SIGKILL.
KillTimerSends(t) == MapHas(sessions, t.pid)

KillTimerFire ==
    /\ killTimers # <<>>
    /\ LET t == Head(killTimers)
       IN  /\ now >= t.at
           /\ signals' = IF KillTimerSends(t) THEN Kill(signals, t.child, "SIGKILL")
                         ELSE signals
    /\ killTimers' = Tail(killTimers)
    /\ UNCHANGED <<now, childSt, childPid, session, output, timerSt, timerAt, results,
                   sessions, completedSessions, reads, tracked, swept, toolVars>>

----------------------------------------------------------------------------
(* TerminalManager.listActiveSessions *)

listActiveSessions ==
    [i \in 1..Len(sessions) |->
        LET c == sessions[i].child
        IN  [pid |-> sessions[i].pid, isBlocked |-> session[c].isBlocked,
             runtime |-> now - session[c].startTime]]

ListActiveCall ==
    /\ listActiveSessions \in Seq([pid : Pids, isBlocked : BOOLEAN, runtime : Int])
    /\ UNCHANGED managerVars

\* listActiveSessions called on the manager directly.
ListActive == ListActiveCall /\ UNCHANGED toolVars

----------------------------------------------------------------------------
(* TerminalManager.cleanupOldSessions *)

\* A plausible slip: a record whose age equals the maximum is removed too.
CompletedExpiredAtEdge(r, maxAgeMs) == now - r.endTime >= maxAgeMs

CompletedExpired(r, maxAgeMs) == now - r.endTime > maxAgeMs

ActiveExpired(e) == now - session[e.child].startTime > maxActiveSessionAge

SweepCompleted(maxAgeMs) ==
    SelectSeq(completedSessions, LAMBDA r : ~CompletedExpired(r, maxAgeMs))

\* A plausible slip: the sweep sets the timers but sends no SIGINT.
SweepSignalsSkipped(sigs, old) == sigs

\* forceTerminate for every expired active session, in the Map's order.
RECURSIVE SweepSignals(_, _)
SweepSignals(sigs, old) ==
    IF old = <<>> THEN sigs
    ELSE SweepSignals(TerminateSignals(sigs, Head(old).pid), Tail(old))

RECURSIVE SweepTimers(_, _)
SweepTimers(timers, old) ==
    IF old = <<>> THEN timers
    ELSE SweepTimers(TerminateTimers(timers, Head(old).pid), Tail(old))

CleanupOldSessions ==
    /\ now <= MaxTime
    /\ LET old == SelectSeq(sessions, ActiveExpired)
           kept == SweepCompleted(COMPLETED_SESSION_MAX_AGE_MS)
       IN  /\ SignalRoom(Len(old))
           /\ completedSessions' = kept
           /\ tracked' = [p \in Pids |->
                            IF p \in MapKeys(completedSessions) \ MapKeys(kept)
                            THEN MapHas(sessions, p) ELSE tracked[p]]
           /\ signals' = SweepSignals(signals, old)
           /\ killTimers' = SweepTimers(killTimers, old)
    /\ swept' = TRUE
    /\ UNCHANGED <<now, childSt, childPid, session, output, timerSt, timerAt, results,
                   sessions, reads, toolVars>>

----------------------------------------------------------------------------
(* The clock *)

TimerPending ==
    \/ \E i \in 1..Len(killTimers) : killTimers[i].at > now
    \/ \E c \in Children : timerSt[c] = "armed" /\ timerAt[c] > now

Tick ==
    /\ now < MaxTime \/ TimerPending
    /\ now' = now + 1
    /\ swept' = FALSE
    /\ UNCHANGED <<childSt, childPid, session, output, timerSt, timerAt, results,
                   sessions, completedSessions, killTimers, signals, reads, tracked,
                   toolVars>>

----------------------------------------------------------------------------
(* Specifications *)

\* The events of the session manager, with the children, data sizes and stream
\* length drawn from the given sets.
Events(Cs, Sizes, maxBytes) ==
    \/ \E c \in Cs, pid \in Pids \cup {Undefined}, timeoutMs \in 0..MaxTimeout :
          ExecuteCommand(c, pid, timeoutMs)
    \/ \E c \in Cs, n \in Sizes : StdoutData(c, n, maxBytes)
    \/ \E c \in Cs, n \in Sizes : StderrData(c, n, maxBytes)
    \/ \E c \in Cs : TimeoutHandler(c)
    \/ \E c \in Cs : ChildExit(c, 0)
    \/ \E c \in Cs : KilledExit(c)
    \/ \E pid \in Pids : ReadNew(pid)
    \/ \E pid \in Pids : ForceTerminate(pid)
    \/ KillTimerFire
    \/ ListActive
    \/ CleanupOldSessions
    \/ Tick

Next == Events(Children, {1}, MaxBytes)

Spec == Init /\ [][Next]_vars

\* Timers that are due fire, the clock advances while a timer is pending, and
\* a child that received SIGKILL ends.
Fairness ==
    /\ WF_vars(Tick)
    /\ WF_vars(KillTimerFire)
    /\ \A c \in Children : WF_vars(KilledExit(c))

FairSpec == Spec /\ Fairness

\* One session with a long output stream: small and large chunks.
NextBuf == Events({1}, {BufSmall, BufChunk}, BufMaxBytes)

SpecBuf == Init /\ [][NextBuf]_vars

----------------------------------------------------------------------------
(* Helpers of the properties *)

ActiveChild(c) ==
    \E i \in 1..Len(sessions) : sessions[i].child = c /\ sessions[i].pid = childPid[c]

RecordOf(c) ==
    \E i \in 1..Len(completedSessions) :
        completedSessions[i].child = c /\ completedSessions[i].pid = childPid[c]

IsSuffix(s, t) ==
    /\ Len(s) <= Len(t)
    /\ s = SubSeq(t, Len(t) - Len(s) + 1, Len(t))

Delivered(c) == results[c] # <<>>

----------------------------------------------------------------------------
(* C1 *)

\* C1: no pid is a key of both the active map and the completed map, also
\* when the operating system gives a new child the pid of an exited child.
ActiveCompletedDisjoint ==
    \A pid \in Pids : ~(MapHas(sessions, pid) /\ MapHas(completedSessions, pid))

----------------------------------------------------------------------------
(* C2 *)

\* C2: the number of completed sessions is at most MAX_COMPLETED_SESSIONS in
\* every state, so after every handled exit and every sweep.
CompletedWithinCap == Len(completedSessions) <= MAX_COMPLETED_SESSIONS

\* More sessions with different pids have finished than the cap allows, at a
\* time when no record can have expired: the cap has evicted a record.
CapHasEvicted ==
    /\ now = 0
    /\ Len(completedSessions) = MAX_COMPLETED_SESSIONS
    /\ Cardinality({childPid[c] : c \in {d \in Children : childSt[d] = "exited"}})
          > MAX_COMPLETED_SESSIONS

----------------------------------------------------------------------------
(* C3 *)

\* What the readNew calls on the session of c have returned, followed by what
\* the next call would return.
ReadSoFar(c) == reads[c] \o session[c].lastOutput

WholeNotices(s) ==
    \A i \in 1..Len(s) :
        (s[i] = 0 /\ (i = 1 \/ s[i - 1] # 0))
            => /\ i + NoticeLen - 1 <= Len(s)
               /\ \A j \in i..(i + NoticeLen - 1) : s[j] = 0

----------------------------------------------------------------------------
(* C4 *)

\* The call of execute for c returns in this step.
Returns(c) == results[c] = <<>> /\ results'[c] # <<>>

\* C4 as stated: when execute returns, either pid = -1 and nothing was stored,
\* or the session is in the active map and readNew(pid) is not null.
ExecuteReturnsActive ==
    [][\A c \in Children :
          Returns(c) =>
            LET r == results'[c][1]
            IN  \/ r.pid = ErrorPid /\ sessions' = sessions
                     /\ completedSessions' = completedSessions
                \/ /\ r.pid # ErrorPid
                   /\ r.pid = childPid'[c]
                   /\ ActiveChild(c)'
                   /\ getNewOutput(childPid[c])'.kind # "null"]_vars

\* C4 as amended: a blocked result leaves the session in the active map, a
\* result after the exit leaves it in the completed map and not in the
\* active map; in both cases readNew(pid) is not null.
ExecuteReturnsStored ==
    [][\A c \in Children :
          Returns(c) =>
            LET r == results'[c][1]
            IN  \/ r.pid = ErrorPid /\ sessions' = sessions
                     /\ completedSessions' = completedSessions
                \/ /\ r.pid # ErrorPid
                   /\ r.pid = childPid'[c]
                   /\ IF r.isBlocked
                      THEN ActiveChild(c)' /\ getNewOutput(childPid[c])'.kind = "text"
                      ELSE ~ActiveChild(c)' /\ RecordOf(c)'
                           /\ getNewOutput(childPid[c])'.kind = "completed"]_vars

\* One call has returned blocked and another has returned after the exit of
\* its child: both cases in which a session was stored have happened.
BothReturnsSeen ==
    \E c \in Children, d \in Children :
        /\ Delivered(c) /\ results[c][1].isBlocked
        /\ Delivered(d) /\ ~results[d][1].isBlocked /\ results[d][1].pid # ErrorPid

----------------------------------------------------------------------------
(* C5 *)

\* C5: from the insertion of a pid's session until the eviction of its
\* record by the cap or by sweep, readNew(pid) is not null.
ReadableUntilEvicted ==
    \A pid \in Pids : tracked[pid] => getNewOutput(pid).kind # "null"

\* A pid whose session has been finalized and whose record is still kept.
FinalizedStillReadable ==
    \E pid \in Pids :
        /\ tracked[pid]
        /\ ~MapHas(sessions, pid)
        /\ MapHas(completedSessions, pid)
        /\ MapGet(completedSessions, pid).exitCode = NullCode

----------------------------------------------------------------------------
(* C6 *)

\* C6: a call delivers one result, decided by the event that came first:
\* blocked when the timer fired first, not blocked when the exit was handled
\* first; after an exit-first result the timer is cancelled for good and the
\* session's isBlocked stays false.
OneResultByFirstEvent ==
    \A c \in Children :
        /\ Len(results[c]) <= 1
        /\ childSt[c] = "unborn" => (~Delivered(c) /\ timerSt[c] = "none")
        /\ timerSt[c] = "armed" => (childSt[c] = "running" /\ ~Delivered(c))
        /\ timerSt[c] = "fired" =>
              /\ Delivered(c)
              /\ results[c][1].isBlocked
              /\ results[c][1].pid = childPid[c]
        /\ timerSt[c] = "cleared" =>
              /\ childSt[c] = "exited"
              /\ Delivered(c)
              /\ ~results[c][1].isBlocked
              /\ results[c][1].pid = childPid[c]
              /\ ~session[c].isBlocked
        /\ childSt[c] = "exited" => timerSt[c] \in {"fired", "cleared"}

\* Both orders have happened: an exit after the timer, and an exit before it.
BothOrdersSeen ==
    \E c \in Children, d \in Children :
        /\ childSt[c] = "exited" /\ timerSt[c] = "fired"
        /\ childSt[d] = "exited" /\ timerSt[d] = "cleared"

----------------------------------------------------------------------------
(* C7 *)

TimerFires(c) == timerSt[c] = "armed" /\ timerSt'[c] = "fired"

BlockedRunning(c) == timerSt[c] = "fired" /\ childSt[c] = "running"

\* C7: when the timer fires before the exit, execute returns blocked and the
\* session stays in the active map with isBlocked set; data that arrives
\* afterwards is appended to its buffer and returned by readNew; the later
\* exit moves the session from the active map to the completed map.
BlockedSessionLivesOn ==
    [][\A c \in Children :
          /\ TimerFires(c) =>
                /\ results'[c] = <<[pid |-> childPid[c], output |-> output[c],
                                    isBlocked |-> TRUE]>>
                /\ ActiveChild(c)'
                /\ session'[c].isBlocked
          /\ (BlockedRunning(c) /\ childSt'[c] = "running") =>
                /\ ActiveChild(c)'
                /\ session'[c].isBlocked
          /\ (BlockedRunning(c) /\ output'[c] # output[c]) =>
                /\ SubSeq(output'[c], 1, Len(output[c])) = output[c]
                /\ session'[c].lastOutput # <<>>
                /\ session'[c].lastOutput[Len(session'[c].lastOutput)] = Len(output'[c])
                /\ getNewOutput(childPid[c])' =
                      [kind |-> "text", text |-> session'[c].lastOutput]
          /\ (BlockedRunning(c) /\ childSt'[c] = "exited") =>
                /\ ActiveChild(c)
                /\ ~ActiveChild(c)'
                /\ RecordOf(c)']_vars

\* A call returned blocked with no output, output came and was read
\* afterwards, and then the child's exit moved the session to completed.
BlockedThenReadThenExited ==
    \E c \in Children :
        /\ Delivered(c)
        /\ results[c][1].isBlocked
        /\ results[c][1].output = <<>>
        /\ reads[c] # <<>>
        /\ childSt[c] = "exited"
        /\ RecordOf(c)

----------------------------------------------------------------------------
(* C8 *)

HasSignal(c, sig) == \E i \in 1..Len(signals[c]) : signals[c][i] = sig

\* C8: once terminate has signalled a session, the session eventually leaves
\* the active map; the step in which it leaves puts its record into the
\* completed map.  This holds also for a child that ignores SIGINT.
TerminateLeadsToCompleted ==
    /\ \A c \in Children :
          (HasSignal(c, "SIGINT") /\ ActiveChild(c)) ~> (~ActiveChild(c) /\ childSt[c] = "exited")
    /\ [][\A c \in Children :
             (ActiveChild(c) /\ ~ActiveChild(c)') => RecordOf(c)']_vars

\* A child that ignored SIGINT was killed after the grace period and its
\* session is now completed.
KilledAndCompleted ==
    \E c \in Children :
        /\ signals[c] = <<"SIGINT", "SIGKILL">>
        /\ childSt[c] = "exited"
        /\ ~ActiveChild(c)
        /\ RecordOf(c)

----------------------------------------------------------------------------
(* C9 *)

GetsSignal(c, sig) == signals'[c] = Append(signals[c], sig)

\* C9: terminate sends SIGINT and returns, leaving a timer due after the grace
\* period; SIGKILL is sent only by that timer, not before it is due, only
\* after SIGINT and only while the session is in the active map; a child
\* whose exit was handled gets no signal any more.
GraceBeforeKill ==
    [][\A c \in Children :
          /\ signals'[c] # signals[c] =>
                GetsSignal(c, "SIGINT") \/ GetsSignal(c, "SIGKILL")
          /\ GetsSignal(c, "SIGINT") =>
                /\ ActiveChild(c)
                /\ Len(killTimers') > Len(killTimers)
                /\ \E i \in (Len(killTimers) + 1)..Len(killTimers') :
                       killTimers'[i] = [pid |-> childPid[c], child |-> c,
                                         at |-> now + SIGINT_TIMEOUT_MS]
          /\ GetsSignal(c, "SIGKILL") =>
                /\ killTimers # <<>>
                /\ Head(killTimers).child = c
                /\ killTimers' = Tail(killTimers)
                /\ now >= Head(killTimers).at
                /\ HasSignal(c, "SIGINT")
                /\ ActiveChild(c)
          /\ childSt[c] = "exited" => signals'[c] = signals[c]]_vars

\* The grace timer has fired and sent SIGKILL, after SIGINT, to a child that
\* is still running; no timer is left pending.
KillSentToRunning ==
    \E c \in Children :
        /\ signals[c] = <<"SIGINT", "SIGKILL">>
        /\ childSt[c] = "running"
        /\ killTimers = <<>>

----------------------------------------------------------------------------
(* C10 *)

\* C10: a child is signalled only in a step of forceTerminate called for its
\* pid, of the SIGKILL timer that such a call set, or of the sweep when the
\* session is older than the hard limit; the initial-wait timer, readNew,
\* listActive and the exit handler signal no child.
OnlyTerminateSignals ==
    [][\A c \in Children :
          signals'[c] # signals[c] =>
            \/ ForceTerminate(childPid[c]) /\ ActiveChild(c)
            \/ KillTimerFire /\ Head(killTimers).child = c
            \/ CleanupOldSessions /\ ActiveChild(c)
                 /\ now - session[c].startTime > maxActiveSessionAge]_vars

\* The initial-wait timer has fired for a session and readNew has drained it,
\* neither signalled it; the session, older than the hard limit and still
\* running, holds the one signal that a terminate step sent.
SweepSignalledOldSession ==
    \E c \in Children :
        /\ timerSt[c] = "fired"
        /\ reads[c] # <<>>
        /\ HasSignal(c, "SIGINT")
        /\ childSt[c] = "running"
        /\ now - session[c].startTime > maxActiveSessionAge

----------------------------------------------------------------------------
(* C11 *)

\* C11: in every state the undrained buffer of every active session has at
\* most MAX_OUTPUT_BUFFER_SIZE characters, and so has the full output kept for
\* a session: the accumulator `output` while the child runs, the stored
\* output of its record once it is completed.
BuffersWithinMax ==
    /\ \A i \in 1..Len(sessions) :
          Len(session[sessions[i].child].lastOutput) <= MAX_OUTPUT_BUFFER_SIZE
    /\ \A c \in Children :
          childSt[c] = "running" => Len(output[c]) <= MAX_OUTPUT_BUFFER_SIZE
    /\ \A i \in 1..Len(completedSessions) :
          Len(completedSessions[i].output) <= MAX_OUTPUT_BUFFER_SIZE

----------------------------------------------------------------------------
(* C12 *)

\* The fields of a completed record that the program stores.
RecordFields(r) ==
    [output |-> r.output, exitCode |-> r.exitCode,
     startTime |-> r.startTime, endTime |-> r.endTime]

\* What readNew returns for a pid that has only the completed record r.
CompletedReply(r) ==
    [kind |-> "completed", exitCode |-> r.exitCode,
     runtime |-> r.endTime - r.startTime, text |-> r.output]

\* C12: a step that does not evict the record of a pid leaves the record's
\* output, exit code, startTime and endTime as they were, and readNew(pid)
\* still returns the text of that record.
CompletedRecordFixed ==
    [][\A pid \in Pids :
          (MapHas(completedSessions, pid) /\ MapHas(completedSessions', pid)) =>
             /\ RecordFields(MapGet(completedSessions, pid)')
                   = RecordFields(MapGet(completedSessions, pid))
             /\ getNewOutput(pid)' = CompletedReply(MapGet(completedSessions, pid))]_vars

----------------------------------------------------------------------------
(* C13 *)

\* The exit of the child c is handled in this step.
ExitHandled(c) == childSt[c] = "running" /\ childSt'[c] = "exited"

\* C13: when the exit of a child whose whole stream is shorter than
\* MAX_OUTPUT_BUFFER_SIZE is handled, the output stored in its record is
\* exactly the stream received before the exit, each character once,
\* whatever readNew had drained before.
FinalOutputIsStream ==
    [][\A c \in Children :
          (ExitHandled(c) /\ Len(output[c]) < MAX_OUTPUT_BUFFER_SIZE) =>
             \E i \in 1..Len(completedSessions') :
                 /\ completedSessions'[i].child = c
                 /\ completedSessions'[i].output = output[c]]_vars

----------------------------------------------------------------------------
(* C14 *)

\* C14: a sweep keeps every completed record whose age is at most
\* COMPLETED_SESSION_MAX_AGE_MS (equality included), removes no active
\* session, and sends no signal to and sets no timer for an active session
\* whose age is at most 24 hours.
SweepSparesYoung ==
    [][CleanupOldSessions =>
          /\ \A i \in 1..Len(completedSessions) :
                now - completedSessions[i].endTime <= COMPLETED_SESSION_MAX_AGE_MS
                   => \E j \in 1..Len(completedSessions') :
                          completedSessions'[j] = completedSessions[i]
          /\ sessions' = sessions
          /\ \A c \in Children :
                (ActiveChild(c) /\ now - session[c].startTime <= maxActiveSessionAge)
                   => /\ signals'[c] = signals[c]
                      /\ \A i \in 1..Len(killTimers') :
                             killTimers'[i].child = c => i <= Len(killTimers)]_vars

\* A sweep has run at this clock reading and has kept a record whose age is
\* exactly the maximum and an active session whose age is exactly 24 hours.
SweptAtTheEdge ==
    /\ swept
    /\ \E i \in 1..Len(completedSessions) :
          now - completedSessions[i].endTime = COMPLETED_SESSION_MAX_AGE_MS
    /\ \E c \in Children :
          /\ ActiveChild(c)
          /\ now - session[c].startTime = maxActiveSessionAge
          /\ signals[c] = <<>>

----------------------------------------------------------------------------
(* C15 *)

----------------------------------------------------------------------------
(* C16 *)

\* The call of execute for c finds that spawn gave no pid.
SpawnsWithoutPid(c) == childSt[c] = "unborn" /\ childSt'[c] = "nopid"

\* C16: when spawn yields a child without a pid, execute returns pid -1 with
\* the fixed error text and isBlocked false, arms no timer, and leaves the
\* active map and the completed map as they were.
NoPidStoresNothing ==
    [][\A c \in Children :
          SpawnsWithoutPid(c) =>
             /\ results'[c] = <<[pid |-> 0 - 1, output |-> NoPidMessage,
                                 isBlocked |-> FALSE]>>
             /\ timerSt'[c] = "none"
             /\ killTimers' = killTimers
             /\ sessions' = sessions
             /\ completedSessions' = completedSessions]_vars

\* A call has returned the error object while another session was stored.
NoPidReturnedBesideSession ==
    \E c \in Children :
        /\ childSt[c] = "nopid"
        /\ results[c] = <<[pid |-> 0 - 1, output |-> NoPidMessage, isBlocked |-> FALSE]>>
        /\ timerSt[c] = "none"
        /\ Len(sessions) + Len(completedSessions) > 0

----------------------------------------------------------------------------
(* isCommandAllowed as a function of the environment and the command *)

CheckCommand(command) ==
    /\ check' = [called |-> TRUE, command |-> command,
                 allowed |-> isCommandAllowed(command)]
    /\ UNCHANGED <<managerVars, env, limited, spawnEnv, reply, handler, answers, proc>>

NextAllow == \E command \in Commands : CheckCommand(command)

SpecAllow == InitEnv(Environments) /\ [][NextAllow]_vars

----------------------------------------------------------------------------
(* C18 *)

\* ALLOW_ANY is set.
AllowAny == env.ALLOW_ALL_COMMANDS = EnvVar(TrueText)

\* C18 as stated: the command is allowed iff ALLOW_ANY is set or the command
\* without its leading whitespace starts with an entry of the effective list:
\* the comma-separated entries of ALLOWED_COMMANDS when that is set, the
\* built-in list otherwise.
AllowedAsStated ==
    check.called =>
        LET list == IF env.ALLOWED_COMMANDS.set
                    THEN Split(env.ALLOWED_COMMANDS.value)
                    ELSE DEFAULT_ALLOWED_COMMANDS
        IN  check.allowed <=>
               \/ AllowAny
               \/ \E i \in 1..Len(list) : StartsWith(TrimStart(check.command), list[i])

\* C18 as amended: the entries of ALLOWED_COMMANDS count without their
\* surrounding whitespace, and an empty ALLOWED_COMMANDS counts as not set.
AllowedAsParsed ==
    check.called =>
        LET parts == Split(env.ALLOWED_COMMANDS.value)
            list == IF env.ALLOWED_COMMANDS.set /\ env.ALLOWED_COMMANDS.value # <<>>
                    THEN [i \in 1..Len(parts) |-> TrimEnd(TrimStart(parts[i]))]
                    ELSE DEFAULT_ALLOWED_COMMANDS
        IN  check.allowed <=>
               \/ AllowAny
               \/ \E i \in 1..Len(list) : StartsWith(TrimStart(check.command), list[i])

\* ALLOWED_COMMANDS holds an entry with a space before it, ALLOW_ANY is not
\* set, and a command with leading whitespace that starts with the entry has
\* been found allowed.
AllowedByTrimmedEntry ==
    /\ check = [called |-> TRUE, command |-> <<" ", "l", "s">>, allowed |-> TRUE]
    /\ env = [DefaultEnv EXCEPT !.ALLOWED_COMMANDS = EnvVar(<<" ", "l">>)]

----------------------------------------------------------------------------
(* server.ts, handlers/terminal-handlers.ts, tools/execute.ts: the tools *)

\* The children that the tools may spawn.
MaxToolChildren == 1
ToolChildren == 1..MaxToolChildren

ToolNames ==
    {"claude_code", "execute_command", "read_output", "force_terminate", "list_sessions"}

RequestedNames == ToolNames \cup {"unknown_tool"}

\* JSON values of the arguments: a missing key, a string, a number.
Absent == [type |-> "undefined", text |-> <<>>, number |-> 0]
Str(text) == [type |-> "string", text |-> text, number |-> 0]
Num(n) == [type |-> "number", text |-> <<>>, number |-> n]

\* args.params.arguments: no object at all, or an object with some of the keys.
NoArguments ==
    [isObject |-> FALSE, command |-> Absent, pid |-> Absent, prompt |-> Absent,
     wait |-> TRUE]

Arguments(command, pid, prompt, wait) ==
    [isObject |-> TRUE, command |-> command, pid |-> pid, prompt |-> prompt,
     wait |-> wait]

ToolArguments ==
    {NoArguments}
    \cup {Arguments(v, Absent, Absent, TRUE) :
             v \in {Absent, Num(1), Str(<<"l", "s">>), Str(<<"L">>)}}
    \cup {Arguments(Absent, v, Absent, TRUE) :
             v \in {Num(q) : q \in Pids} \cup {Str(<<"l">>)}}
    \cup {Arguments(Absent, Absent, v, w) :
             v \in {Num(1), Str(<<"l">>)}, w \in BOOLEAN}

\* The zod schemas of tools/schemas.ts, as far as the required keys go.
ExecuteCommandArgsSchema(args) == args.isObject /\ args.command.type = "string"
ReadOutputArgsSchema(args) == args.isObject /\ args.pid.type = "number"
ForceTerminateArgsSchema(args) == args.isObject /\ args.pid.type = "number"
ListSessionsArgsSchema(args) == args.isObject
ClaudeCodeArgsSchema(args) == args.isObject /\ args.prompt.type = "string"

SchemaAccepts(toolName, args) ==
    CASE toolName = "claude_code" -> ClaudeCodeArgsSchema(args)
      [] toolName = "execute_command" -> ExecuteCommandArgsSchema(args)
      [] toolName = "read_output" -> ReadOutputArgsSchema(args)
      [] toolName = "force_terminate" -> ForceTerminateArgsSchema(args)
      [] toolName = "list_sessions" -> ListSessionsArgsSchema(args)
      [] OTHER -> TRUE

\* new McpError(code, message)
McpError(code, message) == [code |-> code, message |-> message]

\* The catch block of the CallToolRequest handler wraps whatever was thrown
\* inside the try block; the wrapped error is what the client receives.
CatchAndRethrow(error) ==
    LET wrapped == McpError("InternalError",
                            <<"Tool execution failed: ">> \o error.message)
    IN  Reply("error", FALSE, wrapped.code, wrapped.message, <<>>, 0)

ToolResult(text, data) == Reply("result", FALSE, "", text, data, 0)
ToolErrorResult(text, data) == Reply("result", TRUE, "", text, data, 0)
PendingReply(c) == Reply("pending", FALSE, "", <<>>, <<>>, c)

InvalidArgumentsResult(toolName) ==
    ToolErrorResult(<<"Error: Invalid arguments for ", toolName, ": ">>, <<>>)

\* The reply of executeCommand of tools/execute.ts for the manager's result r.
ExecuteCommandReply(r) ==
    IF r.pid = ErrorPid
    THEN ToolErrorResult(<<>>, r.output)
    ELSE ToolResult(IF r.isBlocked
                    THEN <<"Command started with PID ", "Initial output:",
                           "Command is still running. Use read_output to get more output.">>
                    ELSE <<"Command started with PID ", "Initial output:">>,
                    <<r.pid>> \o r.output)

\* The reply of handleClaudeCode with wait = true for a result that is not blocked.
ClaudeCodeWaitReply(r) == ToolResult(<<>>, r.output)

\* The reply of handleClaudeCode with wait = false.
ClaudeCodeStartedReply(r) ==
    ToolResult(IF r.isBlocked
               THEN <<"Claude Code task started with PID ", "Initial response:",
                      "This task is still running. Use read_output to get more output.">>
               ELSE <<"Claude Code task started with PID ", "Initial response:">>,
               <<r.pid>> \o r.output)

\* What the handler h returns for the result r when it returns without polling.
HandlerReply(h, r) ==
    IF h.tool = "execute_command" THEN ExecuteCommandReply(r)
    ELSE IF h.wait THEN ClaudeCodeWaitReply(r)
    ELSE ClaudeCodeStartedReply(r)

\* The code after `await terminalManager.executeCommand(...)` for the call c, run
\* by the handler h when the Promise has delivered r: the assistant tool with
\* wait = true and a blocked result starts the polling interval, every other
\* handler returns its reply.
AfterAwait(c, h, r) ==
    IF h.tool = "claude_code" /\ h.wait /\ r.isBlocked
    THEN /\ handler' = [handler EXCEPT ![c] = Handler(h.tool, h.wait, "poll")]
         /\ UNCHANGED answers
    ELSE /\ handler' = [handler EXCEPT ![c] = Handler(h.tool, h.wait, "done")]
         /\ answers' = [answers EXCEPT ![c] = Append(@, HandlerReply(h, r))]

\* A tool handler calls executeCommand for one of the children Cs: with a pid the handler waits at the
\* await, without one the Promise is settled already and the handler goes on.
CallAndAwait(Cs, tool, wait) ==
    \E c \in Cs, pid \in Pids \cup {Undefined}, timeoutMs \in 0..MaxTimeout :
        /\ ExecuteCommandCall(c, pid, timeoutMs)
        /\ IF pid = Undefined
           THEN /\ AfterAwait(c, Handler(tool, wait, "await"), NoPidResult)
                /\ reply' = HandlerReply(Handler(tool, wait, "await"), NoPidResult)
           ELSE /\ handler' = [handler EXCEPT ![c] = Handler(tool, wait, "await")]
                /\ reply' = PendingReply(c)
                /\ UNCHANGED answers

\* handleExecuteCommand and executeCommand of tools/execute.ts: the schema is
\* checked (twice), then the command is executed.
handleExecuteCommand(args) ==
    IF ~ExecuteCommandArgsSchema(args)
    THEN /\ reply' = InvalidArgumentsResult("execute_command")
         /\ UNCHANGED <<managerVars, env, limited, spawnEnv, check, handler, answers, proc>>
    ELSE /\ CallAndAwait(ToolChildren, "execute_command", TRUE)
         /\ UNCHANGED <<env, limited, check, proc>>

\* The reply of readOutput for what getNewOutput returned.
ReadOutputReply(pid, out) ==
    IF MapHas(sessions, pid) THEN ToolResult(<<>>, out.text)
    ELSE IF out.kind = "completed"
         THEN ToolResult(<<"Process completed with exit code ", "Runtime: ",
                           "Final output:">>,
                         <<out.exitCode, out.runtime>> \o out.text)
         ELSE ToolErrorResult(<<"No session found for PID ">>, <<pid>>)

handleReadOutput(args) ==
    IF ~ReadOutputArgsSchema(args)
    THEN /\ reply' = InvalidArgumentsResult("read_output")
         /\ UNCHANGED <<managerVars, env, limited, spawnEnv, check, handler, answers, proc>>
    ELSE /\ ReadNewCall(args.pid.number)
         /\ reply' = ReadOutputReply(args.pid.number, getNewOutput(args.pid.number))
         /\ UNCHANGED <<env, limited, spawnEnv, check, handler, answers, proc>>

\* A plausible slip: a pid without an active session is answered as an error.
ForceTerminateReplyIsError(pid, success) ==
    IF success
    THEN ToolResult(<<"Successfully initiated termination of session ">>, <<pid>>)
    ELSE ToolErrorResult(<<"No active session found for PID ">>, <<pid>>)

\* The reply of forceTerminate for what the manager's forceTerminate returned.
ForceTerminateReply(pid, success) ==
    IF success
    THEN ToolResult(<<"Successfully initiated termination of session ">>, <<pid>>)
    ELSE ToolResult(<<"No active session found for PID ">>, <<pid>>)

handleForceTerminate(args) ==
    IF ~ForceTerminateArgsSchema(args)
    THEN /\ reply' = InvalidArgumentsResult("force_terminate")
         /\ UNCHANGED <<managerVars, env, limited, spawnEnv, check, handler, answers, proc>>
    ELSE /\ ForceTerminateCall(args.pid.number)
         /\ reply' = ForceTerminateReply(args.pid.number,
                                         forceTerminateResult(args.pid.number))
         /\ UNCHANGED <<env, limited, spawnEnv, check, handler, answers, proc>>

handleListSessions(args) ==
    IF ~ListSessionsArgsSchema(args)
    THEN /\ reply' = InvalidArgumentsResult("list_sessions")
         /\ UNCHANGED <<managerVars, env, limited, spawnEnv, check, handler, answers, proc>>
    ELSE /\ ListActiveCall
         /\ reply' = IF sessions = <<>>
                     THEN ToolResult(<<"No active sessions">>, <<>>)
                     ELSE ToolResult(<<"PID: ", "Running: ", "Runtime: ">>,
                                     [i \in 1..Len(sessions) |-> sessions[i].pid])
         /\ UNCHANGED <<env, limited, spawnEnv, check, handler, answers, proc>>

\* handleClaudeCode: a failed schema check throws inside the try block of the
\* CallToolRequest handler; otherwise the assistant is started through the
\* manager.
handleClaudeCode(args) ==
    IF ~ClaudeCodeArgsSchema(args)
    THEN /\ reply' = CatchAndRethrow(
                        McpError("InvalidParams", <<"Invalid arguments for claude_code: ">>))
         /\ UNCHANGED <<managerVars, env, limited, spawnEnv, check, handler, answers, proc>>
    ELSE /\ CallAndAwait(ToolChildren, "claude_code", args.wait)
         /\ UNCHANGED <<env, limited, check, proc>>

\* default: throw new McpError(ErrorCode.MethodNotFound, ...), inside the try block.
ToolNotFound(toolName) ==
    /\ reply' = CatchAndRethrow(
                   McpError("MethodNotFound", <<"Tool ", toolName, " not found">>))
    /\ UNCHANGED <<managerVars, env, limited, spawnEnv, check, handler, answers, proc>>

\* The switch of the CallToolRequest handler; a process that is down handles
\* no request.
CallToolRequest(toolName, args) ==
    /\ proc = Up
    /\ CASE toolName = "claude_code" -> handleClaudeCode(args)
         [] toolName = "execute_command" -> handleExecuteCommand(args)
         [] toolName = "read_output" -> handleReadOutput(args)
         [] toolName = "force_terminate" -> handleForceTerminate(args)
         [] toolName = "list_sessions" -> handleListSessions(args)
         [] OTHER -> ToolNotFound(toolName)

\* The Promise of the call c is settled in this step: the handler waiting at
\* the await goes on in the same turn of the event loop.
Settle(c) ==
    IF handler[c].at = "await" /\ results[c] = <<>> /\ results'[c] # <<>>
    THEN AfterAwait(c, handler[c], results'[c][1])
    ELSE UNCHANGED <<handler, answers>>

\* The events of a child that a tool call spawned.
ToolTimeout(c) ==
    /\ proc = Up
    /\ TimeoutHandlerCall(c)
    /\ Settle(c)
    /\ UNCHANGED <<env, limited, spawnEnv, reply, check, proc>>

ToolChildExit(c, code) ==
    /\ proc = Up
    /\ ExitHandlerCall(c, code)
    /\ Settle(c)
    /\ UNCHANGED <<env, limited, spawnEnv, reply, check, proc>>

ToolKilledExit(c) ==
    /\ proc = Up
    /\ Killed(c)
    /\ ExitHandlerCall(c, NullCode)
    /\ Settle(c)
    /\ UNCHANGED <<env, limited, spawnEnv, reply, check, proc>>

ToolStdoutData(c) == proc = Up /\ StdoutData(c, 1, MaxBytes)

ToolStderrData(c) == proc = Up /\ StderrData(c, 1, MaxBytes)

ToolStdoutPhrase(c) == proc = Up /\ StdoutPhrase(c, MaxBytes)

\* String.prototype.includes
Includes(text, part) ==
    \E i \in 0..(Len(text) - Len(part)) : SubSeq(text, i + 1, i + Len(part)) = part

\* What the polling callback resolves with: output || result.output
PollReply(out, r) ==
    IF out.kind = "completed"
    THEN ToolResult(<<"Process completed with exit code ", "Runtime: ", "Final output:">>,
                    <<out.exitCode, out.runtime>> \o out.text)
    ELSE IF out.kind = "text" THEN ToolResult(<<>>, out.text)
    ELSE ToolResult(<<>>, r.output)

\* Whether the polling callback resolves: the pid is not in the active map, or
\* the text read is that of a completed session.
PollEnds(out, isRunning) ==
    \/ ~isRunning
    \/ out.kind = "completed"
    \/ out.kind = "text" /\ Includes(out.text, CompletionPhrase)

\* The callback of the assistant tool's setInterval(..., 1000): it reads the
\* new output of the pid, looks the pid up among the active sessions, and
\* either resolves and clears the interval or leaves it running.
Poll(c) ==
    /\ proc = Up
    /\ handler[c].at = "poll"
    /\ LET r == results[c][1]
           out == getNewOutput(r.pid)
           isRunning == \E i \in 1..Len(listActiveSessions) :
                            listActiveSessions[i].pid = r.pid
       IN  /\ ReadNewCall(r.pid)
           /\ IF PollEnds(out, isRunning)
              THEN /\ handler' = [handler EXCEPT ![c].at = "done"]
                   /\ answers' = [answers EXCEPT ![c] = Append(@, PollReply(out, r))]
              ELSE UNCHANGED <<handler, answers>>
    /\ UNCHANGED <<env, limited, spawnEnv, reply, check, proc>>

\* An 'error' event of a ChildProcess: spawn failed (the child has no pid) or a
\* signal could not be sent.  executeCommand registers no 'error' listener, so
\* the EventEmitter throws, nothing catches it, and the process ends.
ChildError(c) ==
    /\ proc = Up
    /\ childSt[c] \in {"nopid", "running"}
    /\ proc' = Process("crashed", 1)
    /\ UNCHANGED <<managerVars, env, limited, spawnEnv, reply, check, handler, answers>>

\* A plausible slip: the handler exits with the status of a failure.
SigintFails ==
    /\ proc = Up
    /\ proc' = Process("exited", 1)
    /\ UNCHANGED <<managerVars, env, limited, spawnEnv, reply, check, handler, answers>>

\* process.on('SIGINT'): await this.server.close(); process.exit(0)
Sigint ==
    /\ proc = Up
    /\ proc' = Process("exited", 0)
    /\ UNCHANGED <<managerVars, env, limited, spawnEnv, reply, check, handler, answers>>

ToolKillTimerFire == proc = Up /\ KillTimerFire

\* The callback of setInterval(..., CLEANUP_INTERVAL_MS) of run().
SweepInterval == proc = Up /\ CleanupOldSessions

ToolTick == proc = Up /\ Tick

\* The server with the children of the tools: requests, the events of the child,
\* the timers, the periodic sweep, the interrupt signal and the clock.
NextTools ==
    \/ \E args \in ToolArguments : CallToolRequest("claude_code", args)
    \/ \E args \in ToolArguments : CallToolRequest("execute_command", args)
    \/ \E args \in ToolArguments : CallToolRequest("read_output", args)
    \/ \E args \in ToolArguments : CallToolRequest("force_terminate", args)
    \/ \E args \in ToolArguments : CallToolRequest("list_sessions", args)
    \/ \E args \in ToolArguments : CallToolRequest("unknown_tool", args)
    \/ \E c \in ToolChildren : ToolStdoutData(c)
    \/ \E c \in ToolChildren : ToolStderrData(c)
    \/ \E c \in ToolChildren : ToolTimeout(c)
    \/ \E c \in ToolChildren : ToolChildExit(c, 0)
    \/ \E c \in ToolChildren : ToolKilledExit(c)
    \/ \E c \in ToolChildren : Poll(c)
    \/ \E c \in ToolChildren : ChildError(c)
    \/ ToolKillTimerFire
    \/ SweepInterval
    \/ Sigint
    \/ ToolTick

SpecTools == Init /\ [][NextTools]_vars

\* The assistant tool called with valid arguments, for any of the children.
ClaudeCodeCall(wait) ==
    /\ proc = Up
    /\ CallAndAwait(Children, "claude_code", wait)
    /\ UNCHANGED <<env, limited, check, proc>>

\* The assistant tool alone: its calls, the events of the children it
\* spawned, its polling, the periodic sweep and the clock.
NextWait ==
    \/ \E wait \in BOOLEAN : ClaudeCodeCall(wait)
    \/ \E c \in Children : ToolStdoutData(c)
    \/ \E c \in Children : ToolStdoutPhrase(c)
    \/ \E c \in Children : ToolTimeout(c)
    \/ \E c \in Children : ToolChildExit(c, 0)
    \/ \E c \in Children : Poll(c)
    \/ SweepInterval
    \/ ToolTick

SpecWait == Init /\ [][NextWait]_vars

\* The interval timer of a polling handler keeps firing.
FairWait == SpecWait /\ \A c \in Children : WF_vars(Poll(c))

----------------------------------------------------------------------------
(* C17 *)

\* The text of a reply has the given part.
TextContains(text, part) == \E i \in 1..Len(text) : text[i] = part

\* C17: a call of execute_command with a command that isCommandAllowed rejects
\* spawns no child, stores no session, and is answered with isError = true and
\* a text that contains "Command not allowed".
RejectedCommandNotRun ==
    [][\A args \in ToolArguments :
          (/\ ExecuteCommandArgsSchema(args)
           /\ ~isCommandAllowed(args.command.text)
           /\ CallToolRequest("execute_command", args))
             => /\ childSt' = childSt
                /\ sessions' = sessions
                /\ completedSessions' = completedSessions
                /\ reply'.kind = "result"
                /\ reply'.isError
                /\ TextContains(reply'.text, "Command not allowed")]_vars

----------------------------------------------------------------------------
(* C19 *)

\* C19: a call that names none of the five tools is answered with a protocol
\* error of code MethodNotFound and the message "Tool <name> not found", and
\* changes no session state.
UnknownToolIsMethodNotFound ==
    [][\A toolName \in RequestedNames \ ToolNames, args \in ToolArguments :
          CallToolRequest(toolName, args)
             => /\ reply'.kind = "error"
                /\ reply'.code = "MethodNotFound"
                /\ reply'.text = <<"Tool ", toolName, " not found">>
                /\ UNCHANGED managerVars]_vars

----------------------------------------------------------------------------
(* C20 *)

\* C20: for each of the five tools, a call whose arguments fail the tool's
\* schema is answered with a protocol error of code InvalidParams, and the
\* session manager is not invoked.
InvalidArgumentsAreInvalidParams ==
    [][\A toolName \in ToolNames, args \in ToolArguments :
          (~SchemaAccepts(toolName, args) /\ CallToolRequest(toolName, args))
             => /\ reply'.kind = "error"
                /\ reply'.code = "InvalidParams"
                /\ UNCHANGED managerVars]_vars

----------------------------------------------------------------------------
(* C21 *)

\* C21: when execute returns pid = -1, the execute_command tool answers with
\* isError = true, and the assistant tool, with wait = true and with
\* wait = false, answers with a protocol error of code InternalError instead
\* of a normal reply.
SpawnErrorsSurface ==
    [][\A args \in ToolArguments :
          /\ (/\ CallToolRequest("execute_command", args)
              /\ \E c \in Children : SpawnsWithoutPid(c))
                => /\ reply'.kind = "result"
                   /\ reply'.isError
          /\ (/\ CallToolRequest("claude_code", args)
              /\ \E c \in Children : SpawnsWithoutPid(c))
                => /\ reply'.kind = "error"
                   /\ reply'.code = "InternalError"]_vars

----------------------------------------------------------------------------
(* C22 *)

\* C22 as stated: read_output with a pid that names no session, and
\* force_terminate with a pid that names no active session, both answer with
\* isError = true and an explanatory text, and change no session state.
UnknownPidIsError ==
    [][\A args \in ToolArguments :
          /\ (/\ ReadOutputArgsSchema(args)
              /\ getNewOutput(args.pid.number).kind = "null"
              /\ CallToolRequest("read_output", args))
                => /\ reply'.kind = "result"
                   /\ reply'.isError
                   /\ reply'.text # <<>>
                   /\ UNCHANGED managerVars
          /\ (/\ ForceTerminateArgsSchema(args)
              /\ ~MapHas(sessions, args.pid.number)
              /\ CallToolRequest("force_terminate", args))
                => /\ reply'.kind = "result"
                   /\ reply'.isError
                   /\ reply'.text # <<>>
                   /\ UNCHANGED managerVars]_vars

\* C22 as amended: read_output answers with isError = true and the text
\* "No session found for PID <pid>"; force_terminate answers with the text
\* "No active session found for PID <pid>" and without isError; neither
\* changes session state.
UnknownPidIsExplained ==
    [][\A args \in ToolArguments :
          /\ (/\ ReadOutputArgsSchema(args)
              /\ getNewOutput(args.pid.number).kind = "null"
              /\ CallToolRequest("read_output", args))
                => /\ reply'.kind = "result"
                   /\ reply'.isError
                   /\ reply'.text = <<"No session found for PID ">>
                   /\ reply'.data = <<args.pid.number>>
                   /\ UNCHANGED managerVars
          /\ (/\ ForceTerminateArgsSchema(args)
              /\ ~MapHas(sessions, args.pid.number)
              /\ CallToolRequest("force_terminate", args))
                => /\ reply'.kind = "result"
                   /\ ~reply'.isError
                   /\ reply'.text = <<"No active session found for PID ">>
                   /\ reply'.data = <<args.pid.number>>
                   /\ UNCHANGED managerVars]_vars

\* force_terminate has been called with the pid of a session that is completed
\* and no longer active: the answer names the pid, and no child was signalled.
TerminateOfCompletedExplained ==
    \E pid \in Pids :
        /\ MapHas(completedSessions, pid)
        /\ ~MapHas(sessions, pid)
        /\ reply = Reply("result", FALSE, "", <<"No active session found for PID ">>,
                         <<pid>>, 0)
        /\ \A c \in Children : signals[c] = <<>>
        /\ killTimers = <<>>

----------------------------------------------------------------------------
(* C23 *)

\* The assistant tool with wait = true made the call c.
Waiting(c) == handler[c].tool = "claude_code" /\ handler[c].wait

----------------------------------------------------------------------------
(* C24 *)

\* The process ends in this step through the handler of the interrupt signal.
InterruptHandled == proc = Up /\ proc'.state = "exited"

\* C24: no tool call and no event of a child (data, exit, or an 'error'
\* event) stops the server: a server that is up stays up in every step but
\* the handling of the interrupt signal.
OnlyInterruptStops ==
    [][proc = Up => (proc' = Up \/ InterruptHandled)]_vars

----------------------------------------------------------------------------
(* C25 *)

\* No completed record is older than COMPLETED_SESSION_MAX_AGE_MS and every
\* active session older than 24 hours has been sent SIGINT: the state a sweep
\* leaves behind.
Swept ==
    /\ \A i \in 1..Len(completedSessions) :
          now - completedSessions[i].endTime <= COMPLETED_SESSION_MAX_AGE_MS
    /\ \A c \in Children :
          (ActiveChild(c) /\ now - session[c].startTime > maxActiveSessionAge)
             => HasSignal(c, "SIGINT")

\* C25 as stated: when the interrupt signal is received, the server invokes
\* sweep before it exits, and then exits with status 0.
InterruptSweepsThenExits ==
    [][InterruptHandled => (swept' /\ Swept' /\ proc'.status = 0)]_vars

\* C25 as amended: when the interrupt signal is received, the server exits
\* with status 0 and invokes no sweep: the sessions, the completed records,
\* the signals and the timers are left as they are; afterwards nothing is
\* handled any more.
InterruptExitsAtOnce ==
    [][/\ InterruptHandled => (proc'.status = 0 /\ UNCHANGED managerVars)
       /\ proc.state = "exited" => UNCHANGED vars]_vars

\* The server has exited with status 0 on the interrupt signal while a
\* completed record older than the maximum age was still stored.
ExitedUnswept ==
    /\ proc = Process("exited", 0)
    /\ ~swept
    /\ \E i \in 1..Len(completedSessions) :
          now - completedSessions[i].endTime > COMPLETED_SESSION_MAX_AGE_MS

----------------------------------------------------------------------------
(* C26 *)

\* The characters of a text.
Chars(s) == {s[i] : i \in 1..Len(s)}

\* C26: the output that execute returns when the initial-wait timer fires is
\* drained from the session's buffer: a readNew that follows the return at
\* once yields no character that execute has returned.
BlockedReturnDrains ==
    [][\A c \in Children :
          TimerFires(c) =>
             LET out == getNewOutput(childPid[c])'
             IN  /\ out.kind = "text"
                 /\ Chars(out.text) \cap Chars(results'[c][1].output) = {}]_vars

----------------------------------------------------------------------------
(* C27 *)

\* C27: every session follows Running -> Blocked -> Completed or
\* Running -> Completed: it enters the active map when it is created, with
\* isBlocked = false; isBlocked changes only from false to true and only while
\* the session is in the active map; the session leaves the active map only
\* by moving to the completed map; and a session that is not in the active
\* map never enters it again.
SessionLifecycle ==
    [][\A c \in Children :
          /\ (childSt[c] = "unborn" /\ childSt'[c] = "running")
                => (ActiveChild(c)' /\ ~session'[c].isBlocked)
          /\ session[c].isBlocked => session'[c].isBlocked
          /\ (~session[c].isBlocked /\ session'[c].isBlocked)
                => (ActiveChild(c) /\ ActiveChild(c)')
          /\ (ActiveChild(c) /\ ~ActiveChild(c)')
                => (RecordOf(c)' /\ childSt'[c] = "exited")
          /\ (~ActiveChild(c) /\ ActiveChild(c)') => childSt[c] = "unborn"]_vars

\* Both paths have been taken, by two sessions that had the same pid one after
\* the other: one was blocked and then completed, the other completed without
\* having been blocked; neither is in the active map.
BothLifecyclesSeen ==
    \E c \in Children, d \in Children :
        /\ childPid[c] = childPid[d]
        /\ childSt[c] = "exited" /\ session[c].isBlocked /\ ~ActiveChild(c)
        /\ childSt[d] = "exited" /\ ~session[d].isBlocked /\ ~ActiveChild(d)

----------------------------------------------------------------------------
(* C28 *)

\* The sequence s without its k-th element.
Without(s, k) == SubSeq(s, 1, k - 1) \o SubSeq(s, k + 1, Len(s))

----------------------------------------------------------------------------
(* C30 *)

\* C30: if a child that has a pid reports an error before the initial-wait
\* timer has fired and before its exit, execute returns isBlocked = false
\* with the error details, and the session is finalized: it does not remain
\* in the active map.
ChildErrorFinalizes ==
    [][\A c \in Children :
          (/\ childSt[c] = "running"
           /\ timerSt[c] = "armed"
           /\ ChildError(c))
             => /\ Returns(c)
                /\ ~results'[c][1].isBlocked
                /\ results'[c][1].pid = childPid[c]
                /\ ~ActiveChild(c)']_vars

----------------------------------------------------------------------------
(* C31 *)

\* C31: terminate(pid) for a pid that is not in the active map, unknown or
\* already completed, returns false (the tool then answers "No active session
\* found"), sends no signal, sets no timer and leaves both maps unchanged.
TerminateOfInactiveDoesNothing ==
    [][\A args \in ToolArguments :
          (/\ ForceTerminateArgsSchema(args)
           /\ ~MapHas(sessions, args.pid.number)
           /\ CallToolRequest("force_terminate", args))
             => /\ reply' = Reply("result", FALSE, "",
                                  <<"No active session found for PID ">>,
                                  <<args.pid.number>>, 0)
                /\ signals' = signals
                /\ killTimers' = killTimers
                /\ sessions' = sessions
                /\ completedSessions' = completedSessions]_vars

\* terminate has been called for a pid that no session ever had while a
\* session with another pid is active: that session has no signal and no
\* timer is set.
TerminateOfUnknownBesideActive ==
    \E pid \in Pids, c \in Children :
        /\ ~MapHas(sessions, pid)
        /\ ~MapHas(completedSessions, pid)
        /\ ~tracked[pid]
        /\ reply = Reply("result", FALSE, "", <<"No active session found for PID ">>,
                         <<pid>>, 0)
        /\ ActiveChild(c)
        /\ signals[c] = <<>>
        /\ killTimers = <<>>

----------------------------------------------------------------------------
(* limitBufferSize as a function of the buffer and the size limit *)

MaxBufferLen == 80
MaxMaxSize == 80

\* A buffer of n characters a child wrote, all different.
DataText(n) == [i \in 1..n |-> i]

\* The calls of limitBufferSize that can be made.
LimitCalls ==
    {[called |-> FALSE, buffer |-> DataText(n), maxSize |-> maxSize, result |-> <<>>] :
        n \in 0..MaxBufferLen, maxSize \in 0..MaxMaxSize}

LimitBufferSizeCall ==
    /\ ~limited.called
    /\ limited' = [limited EXCEPT !.called = TRUE,
                                  !.result = limitBufferSize(limited.buffer, limited.maxSize)]
    /\ UNCHANGED <<managerVars, env, spawnEnv, reply, check, handler, answers, proc>>

NextLimit == LimitBufferSizeCall

SpecLimit == InitWith({DefaultEnv}, LimitCalls) /\ [][NextLimit]_vars

----------------------------------------------------------------------------
(* C32 *)

\* C32: for every buffer and every maxSize >= 0, limitBufferSize returns the
\* buffer unchanged when its length is at most maxSize; otherwise the result
\* has length exactly maxSize, begins with the truncation notice and ends with
\* the last maxSize - len(notice) characters of the buffer.
LimitIsExact ==
    limited.called =>
        IF Len(limited.buffer) <= limited.maxSize
        THEN limited.result = limited.buffer
        ELSE /\ Len(limited.result) = limited.maxSize
             /\ SubSeq(limited.result, 1, NoticeLen) = warningMessage
             /\ SubSeq(limited.result, NoticeLen + 1, Len(limited.result))
                  = SubSeq(limited.buffer,
                           Len(limited.buffer) - (limited.maxSize - NoticeLen) + 1,
                           Len(limited.buffer))

----------------------------------------------------------------------------
(* The manager with several sessions, read through the read_output tool *)

ReadOutputCall(pid) == CallToolRequest("read_output", Arguments(Absent, Num(pid), Absent, TRUE))

NextRead ==
    \/ Next
    \/ \E pid \in Pids : ReadOutputCall(pid)

SpecRead == Init /\ [][NextRead]_vars

----------------------------------------------------------------------------
(* C33 *)

\* C33: readNew(pid) on an active session returns the buffered text, or
\* "No new output available" when the buffer is empty, leaves that session's
\* buffer empty and changes nothing else: the session's isBlocked and
\* startTime, the membership of both maps and every other session's buffer
\* are unchanged.
ReadNewOnlyDrains ==
    [][\A pid \in Pids :
          (MapHas(sessions, pid) /\ (ReadNew(pid) \/ ReadOutputCall(pid))) =>
              LET c == MapGet(sessions, pid).child
                  buffered == session[c].lastOutput
              IN  /\ ReadOutputCall(pid) =>
                        reply' = ToolResult(<<>>, IF buffered = <<>>
                                                  THEN NoNewOutputText ELSE buffered)
                  /\ reads'[c] = reads[c] \o buffered
                  /\ session'[c].lastOutput = <<>>
                  /\ session'[c].isBlocked = session[c].isBlocked
                  /\ session'[c].startTime = session[c].startTime
                  /\ sessions' = sessions
                  /\ completedSessions' = completedSessions
                  /\ \A d \in Children \ {c} : session'[d] = session[d]]_vars

\* A blocked session was drained of its text through the tool while another
\* session is active.
DrainedBesideAnother ==
    \E c \in Children, d \in Children :
        /\ c # d
        /\ ActiveChild(c) /\ ActiveChild(d)
        /\ session[c].isBlocked
        /\ reads[c] # <<>>
        /\ session[c].lastOutput = <<>>
        /\ reply = ToolResult(<<>>, reads[c])

----------------------------------------------------------------------------
(* The environment of the children, for the environments of the server *)

NextOrchestrator ==
    \/ \E c \in Children, pid \in Pids \cup {Undefined}, timeoutMs \in 0..MaxTimeout :
          ExecuteCommand(c, pid, timeoutMs)
    \/ \E c \in Children : ChildExit(c, 0)

SpecOrchestrator == InitEnv(OrchestratorEnvironments) /\ [][NextOrchestrator]_vars

----------------------------------------------------------------------------
(* C34 *)

\* The server runs in orchestrator mode.
OrchestratorMode ==
    \/ env.MCP_ORCHESTRATOR_MODE = EnvVar(TrueText)
    \/ env.CLAUDE_CLI_NAME = EnvVar(OrchestratorName)

\* C34: in orchestrator mode the environment passed to a spawned child lacks
\* the orchestrator-mode keys and has debug logging forced off, while the
\* server's own environment is left unchanged, so that every later execute
\* scrubs again; outside orchestrator mode the child receives the server's
\* environment unchanged.
ChildEnvironmentScrubbed ==
    [][/\ env' = env
       /\ \A c \in Children, pid \in Pids \cup {Undefined}, timeoutMs \in 0..MaxTimeout :
             ExecuteCommand(c, pid, timeoutMs) =>
                 /\ spawnEnv'.called
                 /\ IF OrchestratorMode
                    THEN /\ spawnEnv'.env.MCP_ORCHESTRATOR_MODE = Unset
                         /\ spawnEnv'.env.CLAUDE_CLI_NAME = Unset
                         /\ spawnEnv'.env.MCP_CLAUDE_DEBUG = EnvVar(FalseText)
                         /\ spawnEnv'.env.TEST_VAR = env.TEST_VAR
                    ELSE spawnEnv'.env = env]_vars

\* In orchestrator mode with debug logging on, a second child was spawned with
\* a scrubbed environment and the server's environment is as it was.
SecondChildScrubbed ==
    /\ env.MCP_ORCHESTRATOR_MODE = EnvVar(TrueText)
    /\ env.MCP_CLAUDE_DEBUG = EnvVar(TrueText)
    /\ env.CLAUDE_CLI_NAME = EnvVar(ClaudeName)
    /\ \A c \in Children : childSt[c] # "unborn"
    /\ spawnEnv.called
    /\ spawnEnv.env.MCP_ORCHESTRATOR_MODE = Unset
    /\ spawnEnv.env.MCP_CLAUDE_DEBUG = EnvVar(FalseText)

----------------------------------------------------------------------------
(* C35 *)

\* C35: the assistant tool with wait=true never replies while the session it
\* started is still in active, that is before the child's exit has been
\* handled, whatever text the child prints.
WaitRepliesAfterExit ==
    [][\A c \in Children :
          (/\ handler'[c].tool = "claude_code"
           /\ handler'[c].wait
           /\ Len(answers'[c]) > Len(answers[c]))
              => ~\E i \in 1..Len(sessions') :
                      sessions'[i].child = c /\ sessions'[i].pid = childPid'[c]]_vars

----------------------------------------------------------------------------
(* C36 *)

\* C36: when the assistant tool with wait=true replies after polling, the
\* reply text contains the session's final output, the completion block built
\* from the completed record, and never only the initial output captured when
\* the initial wait elapsed, also when other sessions finish or the sweep runs
\* between the child's exit and the next poll tick.
PollRepliesWithFinalOutput ==
    [][\A c \in Children :
          (Poll(c) /\ Len(answers'[c]) > Len(answers[c])) =>
              \E i \in 1..Len(completedSessions) :
                  /\ completedSessions[i].child = c
                  /\ answers'[c][Len(answers'[c])]
                       = ToolResult(<<"Process completed with exit code ", "Runtime: ",
                                      "Final output:">>,
                                    <<completedSessions[i].exitCode,
                                      completedSessions[i].endTime
                                        - completedSessions[i].startTime>>
                                      \o completedSessions[i].output)]_vars

----------------------------------------------------------------------------
(* C37 *)

\* C37: a session leaves the active map only when the exit event of its own
\* child is handled: terminate, sweep, readNew, listActive and the
\* initial-wait timer never remove an active session, so a session whose
\* child never reports an exit stays in active.
OnlyOwnExitRemoves ==
    [][/\ \A c \in Children :
             (/\ ActiveChild(c)
              /\ ~\E i \in 1..Len(sessions') :
                     sessions'[i].child = c /\ sessions'[i].pid = childPid'[c])
                => (ChildExit(c, 0) \/ KilledExit(c))
       /\ (\/ \E pid \in Pids : ForceTerminate(pid) \/ ReadNew(pid)
           \/ \E c \in Children : TimeoutHandler(c)
           \/ CleanupOldSessions
           \/ ListActive
           \/ KillTimerFire) => sessions' = sessions]_vars

\* A session that was read, terminated, outlived its initial wait and a sweep,
\* and is still active next to a session that has finished.
ActiveUntilOwnExit ==
    \E c \in Children, d \in Children :
        /\ ActiveChild(c)
        /\ session[c].isBlocked
        /\ signals[c] # <<>>
        /\ swept
        /\ RecordOf(d)

----------------------------------------------------------------------------
(* C38 *)

\* C38: the forceful kill scheduled by a terminate call is sent only if the
\* very session that was terminated is still active when the grace period
\* ends; it is not sent when that session has already finished and a newer
\* session that was given the same pid is active.
KillOnlyTheTerminated ==
    [][KillTimerFire =>
          LET t == Head(killTimers)
          IN  IF ActiveChild(t.child)
              THEN signals' = [signals EXCEPT ![t.child] = Append(@, "SIGKILL")]
              ELSE signals' = signals]_vars

\* The terminated session finished, a newer session got its pid within the
\* grace period, the timer fired, and neither child was sent SIGKILL.
NewerSessionSpared ==
    \E c \in Children, d \in Children :
        /\ c # d
        /\ childPid[c] = childPid[d]
        /\ childSt[c] = "exited"
        /\ ActiveChild(d)
        /\ session[c].startTime = session[d].startTime
        /\ signals[c] = <<"SIGINT">>
        /\ signals[d] = <<>>
        /\ killTimers = <<>>

----------------------------------------------------------------------------
(* C39 *)

\* The text holds only notice characters and characters of the stream of d.
OwnBytes(text, d) ==
    \A i \in 1..Len(text) : text[i] = 0 \/ text[i] \in 1..Len(output[d])

----------------------------------------------------------------------------
(* C40 *)

\* C40: with MAX_COMPLETED_SESSIONS >= 1 and a clock that never goes
\* backwards, the cap enforcement run by a finalization never evicts the
\* session that was just finalized: immediately after a child's exit is
\* handled, readNew(pid) returns that session's completion block.
FinalizedSurvivesCap ==
    [][\A c \in Children :
          ExitHandled(c) =>
              \E i \in 1..Len(completedSessions') :
                  LET done == completedSessions'[i]
                  IN  /\ done.child = c
                      /\ done.pid = childPid[c]
                      /\ done.output = ExitFinalOutput(c)
                      /\ done.startTime = session[c].startTime
                      /\ done.endTime = now
                      /\ getNewOutput(childPid[c])' = CompletedReply(done)]_vars

\* Two sessions with different pids finished at the same clock reading, before
\* any record can have expired: the cap removed the record of the one that
\* finished first and readNew returns the block of the other.
LastFinalizedIsReadable ==
    \E c \in Children, d \in Children :
        /\ now = 0
        /\ childSt[c] = "exited" /\ childSt[d] = "exited"
        /\ childPid[c] # childPid[d]
        /\ ~MapHas(completedSessions, childPid[d])
        /\ RecordOf(c)
        /\ getNewOutput(childPid[c]).kind = "completed"

====
